---- MODULE Spec2Model ----
(***************************************************************************)
(* Model of the concurrent SSDP receiver (src/src/receiver.rs) and of the  *)
(* NotifyMessage decode contract (src/src/message/notify.rs).              *)
(*                                                                         *)
(* One listener thread per socket runs receive_packets.  One step of a     *)
(* listener is one iteration of its loop: the receive call returns, its    *)
(* result is matched, and a datagram is decoded and forwarded.  The result *)
(* of the receive call is private to the listener and the iteration        *)
(* touches shared state only in the send, so an iteration is one step.     *)
(* All listeners push into one std::sync::mpsc channel whose receiving end *)
(* the consumer owns.  Time is a discrete tick; a listener blocked in the  *)
(* receive call counts the ticks it has waited in that call.               *)
(***************************************************************************)
EXTENDS Integers, Sequences, FiniteSets, TLC

\* ---------------------------------------------------------------- bounds
MaxSocks == 2
MaxDatagrams == 3
MaxDuration == 1

\* ------------------------------------------------------------- wire data
\* A datagram's bytes are modelled as the sequence of its lines, each line a
\* sequence of tokens; the empty line <<>> is the blank line that ends the
\* header block.
NotifyBytes == << <<"NOTIFY", "*", "HTTP/1.1">>, <<"HOST:", "192.168.1.1">>, <<>> >>
SearchBytes == << <<"M-SEARCH", "*", "HTTP/1.1">>, <<"HOST:", "192.168.1.1">>, <<>> >>
ResponseBytes == << <<"HTTP/1.1", "200", "OK">>, <<>> >>
TruncatedBytes == << <<"NOTIFY", "*", "HTTP/1.1">>, <<"HOST:", "192.168.1.1">> >>
ForeignBytes == << <<"GET", "/", "HTTP/1.1">>, <<>> >>

Bytes == {NotifyBytes, SearchBytes, ResponseBytes, TruncatedBytes, ForeignBytes}

\* The sender address of the datagrams arriving on socket s: each socket
\* hears from its own peer.
Peer(s) == [ip |-> <<192, 168, 1, 10 + s>>, port |-> 1900]

\* The datagrams that can arrive on socket s.
Datagrams(s) == [bytes : Bytes, addr : {Peer(s)}]

\* enum MessageType
MessageType == {"Notify", "Search", "Response"}

\* SSDPResult values.
Ok(v) == [ok |-> TRUE, val |-> v]
Err(e) == [ok |-> FALSE, val |-> e]

\* The external HTTP-style parser: splits the buffer into a start line and
\* the header lines, and fails when there is no start line or when the
\* header block is not terminated by a blank line.
ParseHttp(bytes) ==
    IF Len(bytes) = 0 \/ Len(bytes[1]) = 0 THEN Err("NoStartLine")
    ELSE IF bytes[Len(bytes)] # <<>> THEN Err("Truncated")
    ELSE Ok([start |-> bytes[1],
             headers |-> SubSeq(bytes, 2, Len(bytes) - 1)])

\* SSDPMessage::raw_ssdp: parse, then classify the kind from the start line.
SSDPMessage_raw_ssdp(bytes) ==
    LET p == ParseHttp(bytes) IN
    IF ~p.ok THEN p
    ELSE IF p.val.start[1] = "NOTIFY"
         THEN Ok([message_type |-> "Notify", headers |-> p.val.headers])
    ELSE IF p.val.start[1] = "M-SEARCH"
         THEN Ok([message_type |-> "Search", headers |-> p.val.headers])
    ELSE IF p.val.start[1] = "HTTP/1.1"
         THEN Ok([message_type |-> "Response", headers |-> p.val.headers])
    ELSE Err("InvalidMethod")

\* NotifyMessage::raw_ssdp accepting every decoded message kind.
NotifyMessage_raw_ssdp_AnyKind(bytes) ==
    LET message == SSDPMessage_raw_ssdp(bytes) IN
    IF ~message.ok THEN message
    ELSE Ok([message |-> message.val])

\* NotifyMessage::raw_ssdp
NotifyMessage_raw_ssdp(bytes) ==
    LET message == SSDPMessage_raw_ssdp(bytes) IN
    IF ~message.ok THEN message
    ELSE IF message.val.message_type # "Notify"
         THEN Err("SSDP Message Received Is Not A NotifyMessage")
         ELSE Ok([message |-> message.val])

\* ----------------------------------------------------------------- state
VARIABLES
    socks,      \* the sockets handed to SSDPReceiver::new, one listener each
    time,       \* the Option<Duration> set as every socket's read timeout
    state,      \* state[s]: position of listener s in receive_packets
    waited,     \* waited[s]: ticks listener s has been blocked in recv_pckt
    nrecv,      \* nrecv[s]: datagrams received on socket s so far
    chan,       \* the mpsc channel's queue
    consumer,   \* what the consumer holds: the receiver, its iterator, nothing
    result,     \* what the consumer's latest call returned: "Item" (the
                \* item is recorded in `got`) or the call's error
    got,        \* got[s]: arrival number on socket s of the latest item
                \* from s the consumer obtained, 0 if none yet
    clock,      \* observer: ticks elapsed since construction, counted up
                \* to one past the timeout duration (TimedSpec only)
    call,       \* the library call under way, with its arguments
    pos,        \* how far the call has got: 0 at entry, then the number of
                \* its steps completed
    ret,        \* what the call returned, Pending until it returns
    invoked,    \* the addresses map_local has invoked its closure for
    connectors, \* the UdpConnectors built, each with its socket's address
    wire,       \* the transmissions made, oldest first
    bound,      \* the sockets bound by the call
    joined,     \* the multicast memberships requested from the sockets
    rto         \* rto[s]: the read timeout of socket s

\* The running receiver.
rxVars == <<socks, time, state, waited, nrecv, chan, consumer, result, got,
            clock>>

\* A library call and what it has done to the host's sockets.
callVars == <<call, pos, ret, invoked, connectors, wire, bound, joined, rto>>

vars == <<socks, time, state, waited, nrecv, chan, consumer, result, got,
          clock, call, pos, ret, invoked, connectors, wire, bound, joined,
          rto>>

\* Listener positions: blocked in recv_pckt; returned after a receive
\* timeout; returned after a failed send.
Running == "Running"
TimedOut == "TimedOut"
Closed == "Closed"
Terminated == {TimedOut, Closed}

NoResult == "none"

\* io::ErrorKind values recv_pckt can fail with.
TimeoutKinds == {"WouldBlock", "TimedOut"}
OtherKinds == {"Interrupted", "ConnectionReset"}

None == [some |-> FALSE, d |-> 0]
Some(d) == [some |-> TRUE, d |-> d]

\* No call is under way.
NoCall == [op |-> "none"]

\* The call has not returned yet.
Pending == [pending |-> TRUE]

\* No library call is under examination and the host's sockets are as the
\* running receiver found them.
CallIdle ==
    /\ call = NoCall
    /\ pos = 0
    /\ ret = Pending
    /\ invoked = <<>>
    /\ connectors = <<>>
    /\ wire = <<>>
    /\ bound = <<>>
    /\ joined = <<>>
    /\ rto = <<>>

\* The state right after SSDPReceiver::new returned Ok: the read timeout is
\* set on every socket, one listener per socket is running, and the only
\* senders left are the listeners' clones.
Init ==
    /\ \E n \in 0..MaxSocks : socks = 1..n
    /\ time \in {None} \cup {Some(d) : d \in 1..MaxDuration}
    /\ state = [s \in socks |-> Running]
    /\ waited = [s \in socks |-> 0]
    /\ nrecv = [s \in socks |-> 0]
    /\ chan = <<>>
    /\ consumer = "receiver"
    /\ result = NoResult
    /\ got = [s \in socks |-> 0]
    /\ clock = 0
    /\ CallIdle

\* --------------------------------------------------------------- helpers
Min(a, b) == IF a < b THEN a ELSE b

RECURSIVE Sum(_, _)
Sum(f, S) == IF S = {} THEN 0
             ELSE LET x == CHOOSE y \in S : TRUE IN f[x] + Sum(f, S \ {x})

\* Datagrams received so far on all sockets together.
TotalRecv == Sum(nrecv, socks)

\* A listener's Sender clone is dropped when receive_packets returns.
SenderLive(s) == state[s] \notin Terminated

\* Every Sender of the channel has been dropped; here the Sender created
\* by SSDPReceiver::new is kept alive next to the listeners' clones.
Disconnected_OriginalKept == FALSE

\* Every Sender of the channel has been dropped: the one created by
\* SSDPReceiver::new is moved into spawn_receivers and dropped when it
\* returns, each listener's clone when its receive_packets returns.
Disconnected == \A s \in socks : ~SenderLive(s)

\* The channel's Receiver is alive while the consumer holds the SSDPReceiver
\* or the SSDPIter that owns it.
RxAlive == consumer \in {"receiver", "iter"}

\* The guard of the timeout arm of the match on recv_pckt's result; here
\* only the Windows kind is recognised.
IsTimeoutKind_TimedOutOnly(kind) == kind = "TimedOut"

\* The guard of the timeout arm of the match on recv_pckt's result.
IsTimeoutKind(kind) == kind = "WouldBlock" \/ kind = "TimedOut"

\* The read timeout of the receive call listener s is blocked in has run out.
TimeoutDue(s) == time.some /\ state[s] = Running /\ waited[s] >= time.d

\* The receive call of listener s can return r now: a datagram while
\* datagrams still arrive, a timeout error once the read timeout has run
\* out, another I/O error at any time.
CanReturn(s, r) ==
    IF r.ok THEN TotalRecv < MaxDatagrams
    ELSE r.val \in TimeoutKinds => TimeoutDue(s)

\* What the receive call of listener s can return now.
RecvOutcomes(s) ==
    {r \in {Ok(d) : d \in Datagrams(s)}
            \cup {Err(k) : k \in TimeoutKinds \cup OtherKinds} :
        CanReturn(s, r)}

\* What the receive call can return on a socket no datagram arrives on.
QuietOutcomes(s) == {r \in RecvOutcomes(s) : ~r.ok}

\* mpsc Sender::send putting the item at the front of the queue.
mpsc_send_Front(q, item, alive) ==
    IF alive THEN Ok(<<item>> \o q) ELSE Err("SendError")

\* mpsc Sender::send: fails iff the Receiver has been dropped.
mpsc_send(q, item, alive) ==
    IF alive THEN Ok(Append(q, item)) ELSE Err("SendError")

\* mpsc Receiver::try_recv that reports "empty" whenever nothing is queued.
mpsc_try_recv_AlwaysEmpty(q, disconnected) ==
    IF q # <<>> THEN Ok(Head(q)) ELSE Err("Empty")

\* mpsc Receiver::try_recv
mpsc_try_recv(q, disconnected) ==
    IF q # <<>> THEN Ok(Head(q))
    ELSE IF disconnected THEN Err("Disconnected")
    ELSE Err("Empty")

\* mpsc Receiver::recv returns (rather than blocks) in this state; here it
\* gives up as soon as the queue is empty.
mpsc_recv_ready_Eager(q, disconnected) == TRUE

\* mpsc Receiver::recv returns (rather than blocks) in this state.
mpsc_recv_ready(q, disconnected) == q # <<>> \/ disconnected

\* mpsc Receiver::recv, once it returns.
mpsc_recv(q) ==
    IF q # <<>> THEN Ok(Head(q)) ELSE Err("RecvError")

\* What a call that returned r reported: an item, or its error.
Outcome(r) == IF r.ok THEN "Item" ELSE r.val

\* The queue after an item has been taken from it.
Dequeue(q) == IF q # <<>> THEN Tail(q) ELSE q

\* The consumer's record after a call returned r.
Deliver(log, r) ==
    IF r.ok THEN [log EXCEPT ![r.val.sock] = r.val.idx] ELSE log

\* ------------------------------------------------------------- listeners
\* The item a listener pushes; here the message is paired with the address
\* of the first socket's peer whichever socket it arrived on.
Item_FirstPeer(s, n, d) ==
    [msg |-> n, addr |-> Peer(1), sock |-> s, idx |-> nrecv[s] + 1]

\* The item listener s pushes for datagram d decoded as n: the pair
\* (n, addr), labelled with its socket and its arrival number on it.
Item(s, n, d) == [msg |-> n, addr |-> d.addr, sock |-> s, idx |-> nrecv[s] + 1]

\* Where the loop goes after a receive error; here every error ends it.
AfterRecvErr_AlwaysExit(kind) == TimedOut

\* Where the loop goes after a receive error: out of the function on a
\* timeout, `continue` otherwise.
AfterRecvErr(kind) == IF IsTimeoutKind(kind) THEN TimedOut ELSE Running

\* Where the loop goes after a decode failure; here the listener gives up.
AfterDecodeErr_Exit == Closed

\* Where the loop goes after a decode failure: `continue`.
AfterDecodeErr == Running

\* Where the loop goes after send's result; here a failed send is ignored.
AfterSend_IgnoreErr(sent) == Running

\* Where the loop goes after send's result: on, or out of the function.
AfterSend(sent) == IF sent.ok THEN Running ELSE Closed

\* One iteration of the loop of listener s in which the receive call
\* returns r: the match on r, the decode of the received bytes and the send
\* of the decoded message with the sender's address.
Iteration(s, r) ==
    /\ state[s] = Running
    /\ nrecv' = [nrecv EXCEPT ![s] = IF r.ok THEN @ + 1 ELSE @]
    /\ waited' = [waited EXCEPT ![s] = 0]
    /\ UNCHANGED <<socks, time, consumer, result, got, clock>>
    /\ UNCHANGED callVars
    /\ IF ~r.ok
       THEN /\ state' = [state EXCEPT ![s] = AfterRecvErr(r.val)]
            /\ chan' = chan
       ELSE LET decoded == NotifyMessage_raw_ssdp(r.val.bytes) IN
            IF decoded.ok
            THEN LET sent == mpsc_send(chan, Item(s, decoded.val, r.val), RxAlive) IN
                 /\ chan' = IF sent.ok THEN sent.val ELSE chan
                 /\ state' = [state EXCEPT ![s] = AfterSend(sent)]
            ELSE /\ chan' = chan
                 /\ state' = [state EXCEPT ![s] = AfterDecodeErr]

\* One iteration of the loop of listener s.
ReceivePackets(s) == \E r \in RecvOutcomes(s) : Iteration(s, r)

\* What the receive call can return on a socket that fails in no other way
\* than by its read timeout.
ArrivalOutcomes(s) == {r \in RecvOutcomes(s) : r.ok \/ r.val \in TimeoutKinds}

\* One iteration of the loop of listener s whose receive call returns a
\* datagram or runs into its timeout.
ArrivalReceivePackets(s) == \E r \in ArrivalOutcomes(s) : Iteration(s, r)

\* One iteration of the loop of listener s on a socket no datagram arrives on.
QuietReceivePackets(s) == \E r \in QuietOutcomes(s) : Iteration(s, r)

\* The iteration of listener s whose receive call runs into its timeout.
ReceiveTimeout(s) ==
    /\ s \in socks
    /\ \E r \in {x \in RecvOutcomes(s) : ~x.ok /\ x.val \in TimeoutKinds} :
          Iteration(s, r)

\* The listeners' waits after one more tick.
Waits == [s \in socks |->
            IF time.some /\ state[s] = Running
            THEN waited[s] + 1 ELSE waited[s]]

\* One tick of time passes.  A receive call whose timeout has run out
\* returns before the next tick.
Tick ==
    /\ \A s \in socks : ~TimeoutDue(s)
    /\ waited' = Waits
    /\ UNCHANGED <<socks, time, state, nrecv, chan, consumer, result, got,
                   clock>>
    /\ UNCHANGED callVars

\* One tick of time passes, counted by the observer.
ClockTick ==
    /\ \A s \in socks : ~TimeoutDue(s)
    /\ waited' = Waits
    /\ clock' = Min(clock + 1, IF time.some THEN time.d + 1 ELSE 0)
    /\ UNCHANGED <<socks, time, state, nrecv, chan, consumer, result, got>>
    /\ UNCHANGED callVars

\* -------------------------------------------------------------- consumer
\* SSDPReceiver::try_recv
TryRecv ==
    /\ consumer = "receiver"
    /\ LET r == mpsc_try_recv(chan, Disconnected) IN
        /\ result' = Outcome(r)
        /\ chan' = IF r.ok THEN Dequeue(chan) ELSE chan
        /\ got' = Deliver(got, r)
    /\ UNCHANGED <<socks, time, state, waited, nrecv, consumer, clock>>
    /\ UNCHANGED callVars

\* SSDPReceiver::recv, at the moment it returns.
Recv ==
    /\ consumer = "receiver"
    /\ mpsc_recv_ready(chan, Disconnected)
    /\ LET r == mpsc_recv(chan) IN
        /\ result' = Outcome(r)
        /\ chan' = Dequeue(chan)
        /\ got' = Deliver(got, r)
    /\ UNCHANGED <<socks, time, state, waited, nrecv, consumer, clock>>
    /\ UNCHANGED callVars

\* IntoIterator for SSDPReceiver: the receiver moves into an SSDPIter.
IntoIter ==
    /\ consumer = "receiver"
    /\ consumer' = "iter"
    /\ UNCHANGED <<socks, time, state, waited, nrecv, chan, result, got,
                   clock>>
    /\ UNCHANGED callVars

\* SSDPIter::next: recv().ok()
IterNext ==
    /\ consumer = "iter"
    /\ mpsc_recv_ready(chan, Disconnected)
    /\ LET r == mpsc_recv(chan) IN
        /\ result' = IF r.ok THEN "Item" ELSE "None"
        /\ chan' = Dequeue(chan)
        /\ got' = Deliver(got, r)
    /\ UNCHANGED <<socks, time, state, waited, nrecv, consumer, clock>>
    /\ UNCHANGED callVars

\* The consumer drops the SSDPReceiver (or the SSDPIter owning it): the
\* channel's Receiver is dropped together with whatever is still queued.
Drop ==
    /\ RxAlive
    /\ consumer' = "dropped"
    /\ chan' = <<>>
    /\ UNCHANGED <<socks, time, state, waited, nrecv, result, got, clock>>
    /\ UNCHANGED callVars

\* --------------------------------------------------------- specifications
Next ==
    \/ \E s \in socks : ReceivePackets(s)
    \/ Tick
    \/ TryRecv
    \/ Recv
    \/ IntoIter
    \/ IterNext
    \/ Drop

Spec == Init /\ [][Next]_vars

\* The program with the observer counting the ticks, on sockets whose
\* receive calls return datagrams and timeouts only.
TimedNext ==
    \/ \E s \in socks : ArrivalReceivePackets(s)
    \/ ClockTick
    \/ TryRecv
    \/ Recv
    \/ IntoIter
    \/ IterNext
    \/ Drop

TimedSpec == Init /\ [][TimedNext]_vars

\* No datagram ever arrives on any socket.
QuietNext ==
    \/ \E s \in socks : QuietReceivePackets(s)
    \/ Tick
    \/ TryRecv
    \/ Recv
    \/ IntoIter
    \/ IterNext
    \/ Drop

\* An iteration of some listener whose receive call fails with an error
\* other than a timeout.
TransientError ==
    \E s \in socks : \E k \in OtherKinds : Iteration(s, Err(k))

\* Time passes, a receive call whose read timeout has run out returns, and
\* a consumer blocked in recv or in the iterator's next is woken when the
\* call can return.  Receive errors other than timeouts restart the read
\* timeout, so they are taken to cease at some point.
QuietFairness ==
    /\ WF_vars(Tick)
    /\ \A s \in 1..MaxSocks : WF_vars(ReceiveTimeout(s))
    /\ WF_vars(Recv)
    /\ WF_vars(IterNext)
    /\ <>[][~TransientError]_vars

QuietSpec == Init /\ [][QuietNext]_vars /\ QuietFairness

TypeOK ==
    /\ state \in [socks -> {Running, TimedOut, Closed}]
    /\ consumer \in {"receiver", "iter", "dropped"}
    /\ \A s \in socks : waited[s] \in 0..MaxDuration
    /\ TotalRecv \in 0..MaxDatagrams
    /\ clock \in 0..(MaxDuration + 1)


\* ------------------------------------------------------------ the calls
\* No receiver is running while a library call is examined on its own.
RxIdle ==
    /\ socks = {}
    /\ time = None
    /\ state = <<>>
    /\ waited = <<>>
    /\ nrecv = <<>>
    /\ chan = <<>>
    /\ consumer = "receiver"
    /\ result = NoResult
    /\ got = <<>>
    /\ clock = 0

Max(a, b) == IF a > b THEN a ELSE b

\* ------------------------------------------------------------- MX header
MX_HEADER_NAME == "MX"
MX_HEADER_MIN == 1
MX_HEADER_MAX == 120

\* The largest u8.
U8_MAX == 255

\* struct MX(pub u8)
MX(n) == [MX |-> n]

\* MX::new that clamps the wait bound into the legal range.
MX_new_Clamped(wait_bound) ==
    Ok(MX(Max(MX_HEADER_MIN, Min(wait_bound, MX_HEADER_MAX))))

\* MX::new
MX_new(wait_bound) ==
    IF ~(wait_bound \in MX_HEADER_MIN..MX_HEADER_MAX)
    THEN Err([kind |-> "InvalidHeader", name |-> MX_HEADER_NAME,
              msg |-> "Supplied Wait Bound Is Out Of Bounds"])
    ELSE Ok(MX(wait_bound))

\* A header value is a byte string, modelled as the sequence of its bytes,
\* each byte written as the character it encodes; InvalidByte is a byte
\* that is not valid UTF-8.
Digits == <<"0", "1", "2", "3", "4", "5", "6", "7", "8", "9">>
InvalidByte == "\\xFF"
ReplacementChar == "U+FFFD"

\* The value of a decimal digit character.
DigitValue(c) == (CHOOSE k \in 1..10 : Digits[k] = c) - 1

IsDigit(c) == \E k \in 1..10 : Digits[k] = c

\* String::from_utf8_lossy
from_utf8_lossy(bytes) ==
    [k \in 1..Len(bytes) |->
        IF bytes[k] = InvalidByte THEN ReplacementChar ELSE bytes[k]]

\* The digit loop of str::parse::<u8>: acc * 10 + digit with checked
\* arithmetic, an error at the first character that is no digit.
RECURSIVE parse_u8_digits(_, _)
parse_u8_digits(s, acc) ==
    IF s = <<>> THEN Ok(acc)
    ELSE IF ~IsDigit(Head(s)) THEN Err("InvalidDigit")
    ELSE IF acc * 10 + DigitValue(Head(s)) > U8_MAX THEN Err("PosOverflow")
    ELSE parse_u8_digits(Tail(s), acc * 10 + DigitValue(Head(s)))

\* str::parse::<u8>: an empty string and a lone sign are errors, one
\* leading "+" is skipped, and "-" is no digit of an unsigned type.
parse_u8(s) ==
    IF s = <<>> THEN Err("Empty")
    ELSE IF Len(s) = 1 /\ Head(s) \in {"+", "-"} THEN Err("InvalidDigit")
    ELSE IF Head(s) = "+" THEN parse_u8_digits(Tail(s), 0)
    ELSE parse_u8_digits(s, 0)

\* MX::parse_header
MX_parse_header(raw) ==
    IF Len(raw) # 1 THEN Err("Header")
    ELSE LET cow_string == from_utf8_lossy(raw[1])
             parsed == parse_u8(cow_string)
         IN  IF parsed.ok /\ parsed.val \in MX_HEADER_MIN..MX_HEADER_MAX
             THEN Ok(MX(parsed.val))
             ELSE Err("Header")

\* The longest header value examined.
MaxValueLen == 3

\* The bytes the examined header values are made of.
ValueBytes == {"0", "1", "2", "5", "+", "-", ".", InvalidByte}

\* The byte strings of at most n bytes.
RECURSIVE ByteStrings(_)
ByteStrings(n) ==
    IF n = 0 THEN {<<>>}
    ELSE LET shorter == ByteStrings(n - 1) IN
         shorter \cup {Append(v, b) : v \in shorter, b \in ValueBytes}

\* The raw header fields handed to parse_header: no value, one value, or
\* two short values.
RawHeaders ==
    {<<>>}
    \cup {<<v>> : v \in ByteStrings(MaxValueLen)}
    \cup {<<v, w>> : v \in ByteStrings(1), w \in ByteStrings(1)}

\* The calls into the MX header.
HeaderCalls ==
    {[op |-> "MX::new", wait_bound |-> n] : n \in 0..U8_MAX}
    \cup {[op |-> "MX::parse_header", raw |-> r] : r \in RawHeaders}

HeaderInit ==
    /\ RxIdle
    /\ call \in HeaderCalls
    /\ pos = 0
    /\ ret = Pending
    /\ invoked = <<>>
    /\ connectors = <<>>
    /\ wire = <<>>
    /\ bound = <<>>
    /\ joined = <<>>
    /\ rto = <<>>

\* The call MX::new(wait_bound) returns.
MXNew ==
    /\ call.op = "MX::new"
    /\ ret = Pending
    /\ ret' = MX_new(call.wait_bound)
    /\ UNCHANGED <<call, pos, invoked, connectors, wire, bound, joined, rto>>
    /\ UNCHANGED rxVars

\* The call MX::parse_header(raw) returns.
MXParseHeader ==
    /\ call.op = "MX::parse_header"
    /\ ret = Pending
    /\ ret' = MX_parse_header(call.raw)
    /\ UNCHANGED <<call, pos, invoked, connectors, wire, bound, joined, rto>>
    /\ UNCHANGED rxVars

HeaderNext ==
    \/ MXNew
    \/ MXParseHeader

HeaderSpec == HeaderInit /\ [][HeaderNext]_vars

\* --------------------------------------------------------------- addresses
\* An Ipv4Addr is its four octets, an Ipv6Addr its eight 16-bit segments.
IpV4(octets) == [v |-> 4, ip |-> octets]
IpV6(segments) == [v |-> 6, ip |-> segments]

\* The interface addresses examined: 127.0.0.1, 127.255.0.3, 192.168.1.5;
\* ::, ::1, 2001:2::1 (benchmarking), 2001:db8::1 (documentation),
\* fd00::1 (unique local), fe80::1 (link-local unicast) and
\* 2001:4860:4860::8888 (global unicast).
HostIps ==
    {IpV4(<<127, 0, 0, 1>>), IpV4(<<127, 255, 0, 3>>),
     IpV4(<<192, 168, 1, 5>>),
     IpV6(<<0, 0, 0, 0, 0, 0, 0, 0>>),
     IpV6(<<0, 0, 0, 0, 0, 0, 0, 1>>),
     IpV6(<<8193, 2, 0, 0, 0, 0, 0, 1>>),
     IpV6(<<8193, 3512, 0, 0, 0, 0, 0, 1>>),
     IpV6(<<64768, 0, 0, 0, 0, 0, 0, 1>>),
     IpV6(<<65152, 0, 0, 0, 0, 0, 0, 1>>),
     IpV6(<<8193, 18528, 18528, 0, 0, 0, 0, 34952>>)}

SocketAddrV4(ip, port) == [v |-> 4, ip |-> ip, port |-> port]

SocketAddrV6(ip, port, flowinfo, scope_id) ==
    [v |-> 6, ip |-> ip, port |-> port,
     flowinfo |-> flowinfo, scope_id |-> scope_id]

\* SocketAddr::new
SocketAddr_new(ip, port) ==
    IF ip.v = 4 THEN SocketAddrV4(ip.ip, port)
    ELSE SocketAddrV6(ip.ip, port, 0, 0)

\* get_local_addrs on a host whose interfaces carry the addresses ips.
get_local_addrs(ips) == [k \in 1..Len(ips) |-> SocketAddr_new(ips[k], 0)]

\* The most interfaces a host has.
MaxAddrs == 2

\* The sequences over S of at most n elements.
RECURSIVE SeqsUpTo(_, _)
SeqsUpTo(S, n) ==
    IF n = 0 THEN {<<>>}
    ELSE LET shorter == SeqsUpTo(S, n - 1) IN
         shorter \cup {Append(q, x) : q \in shorter, x \in S}

\* What get_if_addrs can report.
HostInterfaces == SeqsUpTo(HostIps, MaxAddrs)

\* Ipv4Addr::is_loopback that knows 127.0.0.1 only.
Ipv4_is_loopback_One(ip) == ip = <<127, 0, 0, 1>>

\* Ipv4Addr::is_loopback: 127.0.0.0/8
Ipv4_is_loopback(ip) == ip[1] = 127

\* x & mask for a mask that keeps the bits from `low` upwards (low a power
\* of two).
MaskFrom(x, low) == (x \div low) * low

\* is_not_globally
is_not_globally(ip) ==
    LET segments == ip
        is_unspecified == ip = <<0, 0, 0, 0, 0, 0, 0, 0>>
        is_loopback == ip = <<0, 0, 0, 0, 0, 0, 0, 1>>
        is_benchmarking ==
            (segments[1] = 8193) /\ (segments[2] = 2) /\ (segments[3] = 0)
        is_documentation == (segments[1] = 8193) /\ (segments[2] = 3512)
        is_unique_local == MaskFrom(segments[1], 512) = 64512
        is_uniquest == MaskFrom(segments[1], 64) = 65152
    IN  \/ is_unspecified
        \/ is_loopback
        \/ is_benchmarking
        \/ is_documentation
        \/ is_unique_local
        \/ is_uniquest

\* The guards of the match in map_local: the closure is invoked for the
\* addresses that pass.
map_local_guard(addr) ==
    IF addr.v = 4 THEN ~Ipv4_is_loopback(addr.ip)
    ELSE is_not_globally(addr.ip)

\* The addresses map_local invokes its closure for, in enumeration order,
\* when no invocation fails.
map_local_kept(addrs) == SelectSeq(addrs, map_local_guard)

\* ------------------------------------------------------------- send path
UPNP_MULTICAST_IPV4_ADDR == "239.255.255.250"
UPNP_MULTICAST_IPV6_LINK_LOCAL_ADDR == "FF02::C"
UPNP_MULTICAST_PORT == 1900
UPNP_MULTICAST_TTL == 2

\* enum IpVersionMode
IpVersionMode == {"V4Only", "V6Only", "Any"}

\* Config::default with the given mode.
Config_default(mode) ==
    [ipv4_addr |-> UPNP_MULTICAST_IPV4_ADDR,
     ipv6_addr |-> UPNP_MULTICAST_IPV6_LINK_LOCAL_ADDR,
     port |-> UPNP_MULTICAST_PORT,
     ttl |-> UPNP_MULTICAST_TTL,
     mode |-> mode]

\* The configurations examined: the defaults in every mode, and one with
\* each address string replaced by one that is no address.
Configs ==
    {Config_default(m) : m \in IpVersionMode}
    \cup {[Config_default("Any") EXCEPT !.ipv4_addr = "ssdp.example"],
          [Config_default("Any") EXCEPT !.ipv6_addr = "ssdp.example"]}

\* Ipv4Addr::from_str
Ipv4Addr_from_str(s) ==
    IF s = "239.255.255.250" THEN Ok(<<239, 255, 255, 250>>)
    ELSE Err("AddrParseError")

\* Ipv6Addr::from_str
Ipv6Addr_from_str(s) ==
    IF s = "FF02::C" THEN Ok(<<65282, 0, 0, 0, 0, 0, 0, 12>>)
    ELSE Err("AddrParseError")

\* Display of an Ipv6Addr, the host string handed to the connector.
Ipv6Addr_to_string(ip) ==
    IF ip = <<65282, 0, 0, 0, 0, 0, 0, 12>> THEN "ff02::c" ELSE "?"

\* SocketAddrV6::from_str of "[host]:port"
SocketAddrV6_from_str(host, port) ==
    IF host \in {"FF02::C", "ff02::c"}
    THEN Ok(SocketAddrV6(<<65282, 0, 0, 0, 0, 0, 0, 12>>, port, 0, 0))
    ELSE Err("AddrParseError")

\* The scope ids the host reports for the local address of a bound socket.
ScopeIds == {0, 2, 3}

\* The port the host assigns to the j-th socket bound with port 0.
EphemeralPort(j) == 49152 + j

\* The arms of the match in all_local_connectors' closure that build a
\* connector; here the mode is not looked at.
ModeAccepts_Any(filter, addr) == TRUE

\* The arms of the match in all_local_connectors' closure that build a
\* connector.
ModeAccepts(filter, addr) ==
    \/ filter \in {"V4Only", "Any"} /\ addr.v = 4
    \/ filter \in {"V6Only", "Any"} /\ addr.v = 6

\* The address the closure of all_local_connectors binds the connector
\* for addr to: (*n.ip(), 0) for V4, n itself for V6.
ConnectorBindAddr(addr) ==
    IF addr.v = 4 THEN SocketAddrV4(addr.ip, 0) ELSE addr

\* UdpConnector::new for the j-th connector: the socket is bound to
\* local_addr; the multicast TTL argument is not used, so the socket keeps
\* the multicast TTL a new socket has, which is 1.  `bind` is the address
\* handed to UdpSocket::bind, `local` what the socket's local_addr reports
\* afterwards.
UdpConnector_new(local_addr, multicast_ttl, j, scope_id) ==
    [bind |-> local_addr,
     multicast_ttl |-> 1,
     local |-> IF local_addr.v = 4
               THEN [local_addr EXCEPT !.port = EphemeralPort(j)]
               ELSE [local_addr EXCEPT !.port = EphemeralPort(j),
                                       !.scope_id = scope_id]]

\* The positions in kept whose closure call builds a connector.
Binding(kept, filter) ==
    SelectSeq([k \in 1..Len(kept) |-> k],
              LAMBDA k : ModeAccepts(filter, kept[k]))

\* The destination UdpConnector::connect computes for a connector whose
\* local address is V6; here the scope id is left at the parsed
\* address's.
connect_v6_addr_Unscoped(n, parsed) == [parsed EXCEPT !.flowinfo = n.flowinfo]

\* The destination UdpConnector::connect computes for a connector whose
\* local address is V6: the parsed address with the flow-info and the
\* scope id of the local address n.
connect_v6_addr(n, parsed) ==
    [parsed EXCEPT !.flowinfo = n.flowinfo, !.scope_id = n.scope_id]

\* UdpConnector::connect, given what the connector's local_addr returned.
UdpConnector_connect(local, host, port) ==
    IF local.v = 4
    THEN LET ip == Ipv4Addr_from_str(host) IN
         IF ip.ok THEN Ok(SocketAddrV4(ip.val, port)) ELSE Err("InvalidInput")
    ELSE LET addr == SocketAddrV6_from_str(host, port) IN
         IF addr.ok THEN Ok(connect_v6_addr(local, addr.val))
         ELSE Err("InvalidInput")

\* SSDPMessage::send(connector, dst_addr): the message is written to a
\* stream the connector opens for the host and the port of dst_addr.
SSDPMessage_send(local, dst_host, dst_port) ==
    UdpConnector_connect(local, dst_host, dst_port)

\* The body of the loop of multicast::send for a connector whose
\* local_addr returned n: the destination the message is transmitted to,
\* or the error.
SendTo(n, config) ==
    IF n.v = 4
    THEN SSDPMessage_send(n, config.ipv4_addr, config.port)
    ELSE LET ip == Ipv6Addr_from_str(config.ipv6_addr) IN
         IF ~ip.ok THEN ip
         ELSE LET dst == SocketAddrV6(ip.val, config.port,
                                      n.flowinfo, n.scope_id)
              IN  SSDPMessage_send(n, Ipv6Addr_to_string(dst.ip), dst.port)

\* What multicast::send does after an error in the loop; here it goes on
\* with the next connector.
AfterSendErr_Continue(e) == Pending

\* What multicast::send does after an error in the loop: `?` returns it.
AfterSendErr(e) == Err(e)

\* The calls multicast::send(message, config) on the hosts examined.
SendCalls ==
    {[op |-> "send", local_addrs |-> get_local_addrs(ips), config |-> c] :
        ips \in HostInterfaces, c \in Configs}

SendInit ==
    /\ RxIdle
    /\ call \in SendCalls
    /\ pos = 0
    /\ ret = Pending
    /\ invoked = <<>>
    /\ connectors = <<>>
    /\ wire = <<>>
    /\ bound = <<>>
    /\ joined = <<>>
    /\ rto = <<>>

\* What map_local does when a closure call fails, `built` being the
\* connectors pushed so far; here it leaves out the address and returns
\* what it has.
AfterClosureErr_KeepBuilt(e, built) == [ret |-> Pending, connectors |-> built]

\* What map_local does when a closure call fails, `built` being the
\* connectors pushed so far: `?` returns the error and the list is
\* dropped.
AfterClosureErr(e, built) == [ret |-> Err(e), connectors |-> <<>>]

\* The first statement of multicast::send: all_local_connectors, that is
\* map_local with the closure that builds a connector for every address
\* the mode accepts.  The bind of the closure call at position failAt
\* fails (0: none does), which ends map_local and send with the error.
AllLocalConnectors ==
    /\ call.op = "send" /\ pos = 0 /\ ret = Pending
    /\ LET kept == map_local_kept(call.local_addrs)
           binding == Binding(kept, call.config.mode)
       IN  \E failAt \in {0} \cup {binding[j] : j \in 1..Len(binding)},
              scope \in [1..Len(binding) -> ScopeIds] :
             LET all == [j \in 1..Len(binding) |->
                           UdpConnector_new(
                             ConnectorBindAddr(kept[binding[j]]),
                             call.config.ttl, j, scope[j])]
                 nbuilt == Cardinality({j \in 1..Len(binding) :
                                          binding[j] < failAt})
                 out == AfterClosureErr(
                            [kind |-> "AddrNotAvailable", conn |-> 0],
                            SubSeq(all, 1, nbuilt))
             IN  IF failAt = 0
                 THEN /\ invoked' = kept
                      /\ connectors' = all
                      /\ ret' = ret
                 ELSE /\ invoked' = SubSeq(kept, 1, failAt)
                      /\ connectors' = out.connectors
                      /\ ret' = out.ret
    /\ pos' = 1
    /\ UNCHANGED <<call, wire, bound, joined, rto>>
    /\ UNCHANGED rxVars

\* One iteration of the loop of multicast::send, for connector pos: the
\* connector's local address is queried and the message is transmitted to
\* the destination of its family.  Either can fail in the host
\* (hostOk = FALSE), and the destination can fail to parse.
SendLoop ==
    /\ call.op = "send" /\ ret = Pending
    /\ pos \in 1..Len(connectors)
    /\ \E hostOk \in BOOLEAN :
         LET conn == connectors[pos]
             dst == SendTo(conn.local, call.config)
         IN  IF hostOk /\ dst.ok
             THEN /\ wire' = Append(wire, [conn |-> pos,
                                           from |-> conn.local,
                                           to |-> dst.val])
                  /\ ret' = ret
             ELSE /\ wire' = wire
                  /\ ret' = AfterSendErr(
                        [kind |-> IF hostOk THEN dst.val ELSE "Io",
                         conn |-> pos])
    /\ pos' = pos + 1
    /\ UNCHANGED <<call, invoked, connectors, bound, joined, rto>>
    /\ UNCHANGED rxVars

\* The end of multicast::send: every connector has transmitted.
SendReturn ==
    /\ call.op = "send" /\ ret = Pending
    /\ pos = Len(connectors) + 1
    /\ ret' = Ok(connectors)
    /\ UNCHANGED <<call, pos, invoked, connectors, wire, bound, joined, rto>>
    /\ UNCHANGED rxVars

SendNext ==
    \/ AllLocalConnectors
    \/ SendLoop
    \/ SendReturn

SendSpec == SendInit /\ [][SendNext]_vars

\* ------------------------------------------------- multicast membership
\* The interface addresses handed to join_multicast and leave_multicast:
\* the host's addresses, the IPv6 ones with each scope id.
JoinIfaces ==
    {SocketAddrV4(a.ip, 0) : a \in {b \in HostIps : b.v = 4}}
    \cup {SocketAddrV6(a.ip, 0, 0, s) :
            a \in {b \in HostIps : b.v = 6}, s \in ScopeIds}

\* The multicast groups: 239.255.255.250 and ff02::c.
McastGroups ==
    {IpV4(<<239, 255, 255, 250>>), IpV6(<<65282, 0, 0, 0, 0, 0, 0, 12>>)}

\* The error of the last arm of the two matches.
VersionMismatch ==
    [kind |-> "InvalidInput",
     msg |-> "Multicast And Interface Addresses Are Not The Same Version"]

\* The errors the host can answer a membership request with.
OsErrors ==
    {[kind |-> "AddrNotAvailable", msg |-> "os error 99"],
     [kind |-> "InvalidInput", msg |-> "os error 22"]}

\* join_multicast whose match looks at the interface address only.
join_multicast_ByIface(iface, mcast_addr) ==
    IF iface.v = 4
    THEN Ok([op |-> "join_multicast_v4", multiaddr |-> mcast_addr.ip,
             interface |-> iface.ip])
    ELSE Ok([op |-> "join_multicast_v6", multiaddr |-> mcast_addr.ip,
             interface |-> iface.scope_id])

\* join_multicast: the request it issues on the socket, or the error of
\* the last arm.
join_multicast(iface, mcast_addr) ==
    IF iface.v = 4 /\ mcast_addr.v = 4
    THEN Ok([op |-> "join_multicast_v4", multiaddr |-> mcast_addr.ip,
             interface |-> iface.ip])
    ELSE IF iface.v = 6 /\ mcast_addr.v = 6
    THEN Ok([op |-> "join_multicast_v6", multiaddr |-> mcast_addr.ip,
             interface |-> iface.scope_id])
    ELSE Err(VersionMismatch)

\* leave_multicast: the request it issues on the socket, or the error of
\* the last arm.
leave_multicast(iface_addr, mcast_addr) ==
    IF iface_addr.v = 4 /\ mcast_addr.v = 4
    THEN Ok([op |-> "leave_multicast_v4", multiaddr |-> mcast_addr.ip,
             interface |-> iface_addr.ip])
    ELSE IF iface_addr.v = 6 /\ mcast_addr.v = 6
    THEN Ok([op |-> "leave_multicast_v6", multiaddr |-> mcast_addr.ip,
             interface |-> iface_addr.scope_id])
    ELSE Err(VersionMismatch)

\* A call of join_multicast, or of leave_multicast with the group given as
\* a socket address, on a bound socket.
JoinInit ==
    /\ RxIdle
    /\ \E iface \in JoinIfaces, m \in McastGroups :
         \/ call = [op |-> "join_multicast", iface |-> iface, mcast_addr |-> m]
         \/ call = [op |-> "leave_multicast", iface |-> iface,
                    mcast_addr |-> SocketAddr_new(m, UPNP_MULTICAST_PORT)]
    /\ pos = 0
    /\ ret = Pending
    /\ invoked = <<>>
    /\ connectors = <<>>
    /\ wire = <<>>
    /\ bound = <<>>
    /\ joined = <<>>
    /\ rto = <<>>

\* The call under way issues the request on the socket, which the host
\* answers with success or with an error; or, the match having ended in its
\* last arm, the call returns that error and issues nothing.
Membership(request) ==
    /\ ret = Pending
    /\ IF request.ok
       THEN /\ joined' = Append(joined, request.val)
            /\ \/ ret' = Ok("()")
               \/ \E e \in OsErrors : ret' = Err(e)
       ELSE /\ joined' = joined
            /\ ret' = request
    /\ pos' = pos + 1
    /\ UNCHANGED <<call, invoked, connectors, wire, bound, rto>>
    /\ UNCHANGED rxVars

JoinMulticast ==
    /\ call.op = "join_multicast"
    /\ Membership(join_multicast(call.iface, call.mcast_addr))

LeaveMulticast ==
    /\ call.op = "leave_multicast"
    /\ Membership(leave_multicast(call.iface, call.mcast_addr))

JoinNext ==
    \/ JoinMulticast
    \/ LeaveMulticast

JoinSpec == JoinInit /\ [][JoinNext]_vars

\* spawn_receivers for n sockets whose read timeout is t: one listener
\* per socket enters receive_packets, each with a clone of the Sender, and
\* the consumer is handed the receiver.
spawn_receivers(n, t) ==
    /\ socks' = 1..n
    /\ time' = t
    /\ state' = [s \in 1..n |-> Running]
    /\ waited' = [s \in 1..n |-> 0]
    /\ nrecv' = [s \in 1..n |-> 0]
    /\ chan' = <<>>
    /\ consumer' = "receiver"
    /\ result' = NoResult
    /\ got' = [s \in 1..n |-> 0]
    /\ clock' = 0

\* ------------------------------------------------------------ listen path
\* net::bind_reuse: the socket bound, with SO_REUSEADDR, to local_addr.
bind_reuse(local_addr) == [addr |-> local_addr, reuse |-> TRUE]

\* The address listen_with_config binds the one socket of a family to:
\* ("0.0.0.0", config.port) for IPv4 and ("::", config.port) for IPv6.
ListenBindAddr(v, port) ==
    IF v = 4 THEN SocketAddrV4(<<0, 0, 0, 0>>, port)
    ELSE SocketAddrV6(<<0, 0, 0, 0, 0, 0, 0, 0>>, port, 0, 0)

\* A call of listen_with_config(config) on the hosts examined, with the
\* default configuration in each mode.
ListenInit ==
    /\ RxIdle
    /\ \E ips \in HostInterfaces, m \in IpVersionMode :
         call = [op |-> "listen", local_addrs |-> get_local_addrs(ips),
                 config |-> Config_default(m)]
    /\ pos = 0
    /\ ret = Pending
    /\ invoked = <<>>
    /\ connectors = <<>>
    /\ wire = <<>>
    /\ bound = <<>>
    /\ joined = <<>>
    /\ rto = <<>>

\* The first statement of listen_with_config: map_local with a closure
\* that returns every address it is invoked for.
ListenMapLocal ==
    /\ call.op = "listen" /\ pos = 0 /\ ret = Pending
    /\ invoked' = map_local_kept(call.local_addrs)
    /\ pos' = 1
    /\ UNCHANGED <<call, ret, connectors, wire, bound, joined, rto>>
    /\ UNCHANGED rxVars

\* `if ipv4_sock.is_none()` and `if ipv6_sock.is_none()`; here a socket
\* is bound for every address.
is_none_Always(socket_list, v) == TRUE

\* `if ipv4_sock.is_none()` and `if ipv6_sock.is_none()`: no socket of
\* family v has been bound yet.
is_none(socket_list, v) ==
    \A k \in 1..Len(socket_list) : socket_list[k].addr.v # v

\* The timeout listen_with_config and listen_anyaddr_with_config hand to
\* SSDPReceiver::new; here a duration of one tick.
ListenTimeout_OneTick == Some(1)

\* The timeout listen_with_config and listen_anyaddr_with_config hand to
\* SSDPReceiver::new.
ListenTimeout == None

\* One iteration of the loop of listen_with_config, for the address at
\* pos: the socket of the address's family is bound unless there is one
\* already, and the group of that family is joined on the address through
\* that socket (`sock` is its place among the sockets bound).  The bind
\* and the join can fail in the host (bindOk, joinOk), which ends the
\* call.
ListenLoop ==
    /\ call.op = "listen" /\ ret = Pending
    /\ pos \in 1..Len(invoked)
    /\ LET addr == invoked[pos]
           mcast_ip ==
               IF addr.v = 4
               THEN IpV4(Ipv4Addr_from_str(call.config.ipv4_addr).val)
               ELSE IpV6(Ipv6Addr_from_str(call.config.ipv6_addr).val)
           binds == is_none(bound, addr.v)
           sockets == IF binds
                      THEN Append(bound,
                                  bind_reuse(ListenBindAddr(addr.v,
                                                            call.config.port)))
                      ELSE bound
           sock == CHOOSE k \in 1..Len(sockets) :
                      /\ sockets[k].addr.v = addr.v
                      /\ \A j \in (k + 1)..Len(sockets) :
                            sockets[j].addr.v # addr.v
           request == join_multicast(addr, mcast_ip)
       IN  \E bindOk, joinOk \in BOOLEAN :
             IF binds /\ ~bindOk
             THEN /\ ret' = Err([kind |-> "AddrInUse", msg |-> "os error 98"])
                  /\ UNCHANGED <<bound, joined>>
             ELSE /\ bound' = sockets
                  /\ IF request.ok
                     THEN /\ joined' =
                               Append(joined,
                                      [op |-> request.val.op,
                                       multiaddr |-> request.val.multiaddr,
                                       interface |-> request.val.interface,
                                       sock |-> sock])
                          /\ ret' = IF joinOk THEN ret
                                    ELSE Err([kind |-> "AddrNotAvailable",
                                              msg |-> "os error 99"])
                     ELSE /\ joined' = joined
                          /\ ret' = request
    /\ pos' = pos + 1
    /\ UNCHANGED <<call, invoked, connectors, wire, rto>>
    /\ UNCHANGED rxVars

\* The end of listen_with_config: the IPv4 socket and the IPv6 socket, as
\* far as bound, are handed in this order to SSDPReceiver::new with no
\* timeout, which sets it on every socket and spawns the listeners (or
\* fails in the host on a socket: newOk = FALSE), and the receiver is
\* returned.
ListenReturn ==
    /\ call.op = "listen" /\ ret = Pending
    /\ pos = Len(invoked) + 1
    /\ LET sockets == SelectSeq(bound, LAMBDA s : s.addr.v = 4)
                      \o SelectSeq(bound, LAMBDA s : s.addr.v = 6)
       IN  \E newOk \in BOOLEAN :
             IF newOk \/ sockets = <<>>
             THEN /\ rto' = [k \in 1..Len(sockets) |-> ListenTimeout]
                  /\ spawn_receivers(Len(sockets), ListenTimeout)
                  /\ ret' = Ok(sockets)
             ELSE /\ ret' = Err([kind |-> "Other", msg |-> "os error"])
                  /\ UNCHANGED rto
                  /\ UNCHANGED rxVars
    /\ UNCHANGED <<call, pos, invoked, connectors, wire, bound, joined>>

ListenNext ==
    \/ ListenMapLocal
    \/ ListenLoop
    \/ ListenReturn

ListenSpec == ListenInit /\ [][ListenNext]_vars

\* --------------------------------------------------- receiver construction
\* The read timeouts a socket can have: none, or a positive duration.
ReadTimeouts == {None} \cup {Some(d) : d \in 1..(MaxDuration + 1)}

\* UdpSocket::set_read_timeout that leaves a timeout already set in place.
set_read_timeout_KeepExisting(old, dur) ==
    IF old = None THEN Ok(dur) ELSE Ok(old)

\* UdpSocket::set_read_timeout(dur) on a socket whose timeout is old: the
\* socket's timeout afterwards, or the error for a zero duration.
set_read_timeout(old, dur) ==
    IF dur = Some(0) THEN Err([kind |-> "InvalidInput", sock |-> 0])
    ELSE Ok(dur)

\* A call of SSDPReceiver::new(socks, time) with sockets that come with
\* read timeouts of their own.
NewInit ==
    /\ RxIdle
    /\ \E n \in 1..MaxSocks :
         \E prior \in [1..n -> ReadTimeouts],
            t \in ReadTimeouts \cup {Some(0)} :
              /\ call = [op |-> "SSDPReceiver::new", socks |-> n,
                         prior |-> prior, time |-> t]
              /\ rto = prior
    /\ pos = 0
    /\ ret = Pending
    /\ invoked = <<>>
    /\ connectors = <<>>
    /\ wire = <<>>
    /\ bound = <<>>
    /\ joined = <<>>

\* What SSDPReceiver::new does when set_read_timeout fails; here it goes
\* on with the next socket.
AfterSetReadTimeoutErr_Continue(e) == Pending

\* What SSDPReceiver::new does when set_read_timeout fails: `?` returns
\* the error.
AfterSetReadTimeoutErr(e) == Err(e)

\* One iteration of the loop of SSDPReceiver::new, for socket pos + 1:
\* sock.set_read_timeout(time)?  The host can fail the call on any socket
\* (hostOk = FALSE).
NewSetReadTimeout ==
    /\ call.op = "SSDPReceiver::new" /\ ret = Pending
    /\ pos < call.socks
    /\ \E hostOk \in BOOLEAN :
         LET sock == pos + 1
             r == IF hostOk THEN set_read_timeout(rto[sock], call.time)
                  ELSE Err([kind |-> "Other", sock |-> 0])
         IN  IF r.ok
             THEN /\ rto' = [rto EXCEPT ![sock] = r.val]
                  /\ ret' = ret
             ELSE /\ rto' = rto
                  /\ ret' = AfterSetReadTimeoutErr(
                               [r.val EXCEPT !.sock = sock])
    /\ pos' = pos + 1
    /\ UNCHANGED <<call, invoked, connectors, wire, bound, joined>>
    /\ UNCHANGED rxVars

\* The end of SSDPReceiver::new: the listeners are spawned, one per
\* socket, and the receiver is returned.
NewReturn ==
    /\ call.op = "SSDPReceiver::new" /\ ret = Pending
    /\ pos = call.socks
    /\ spawn_receivers(call.socks, call.time)
    /\ ret' = Ok([listeners |-> call.socks])
    /\ UNCHANGED <<call, pos, invoked, connectors, wire, bound, joined, rto>>

NewNext ==
    \/ NewSetReadTimeout
    \/ NewReturn

NewSpec == NewInit /\ [][NewNext]_vars

\* ------------------------------------------------ listening and receiving
\* The hosts a listening receiver is followed on: no interface, loopback
\* only, one IPv4 interface, one link-local IPv6 interface, both, and one
\* global IPv6 interface.
ServeHosts ==
    {<<>>,
     <<IpV4(<<127, 0, 0, 1>>)>>,
     <<IpV4(<<192, 168, 1, 5>>)>>,
     <<IpV6(<<65152, 0, 0, 0, 0, 0, 0, 1>>)>>,
     <<IpV4(<<192, 168, 1, 5>>), IpV6(<<65152, 0, 0, 0, 0, 0, 0, 1>>)>>,
     <<IpV6(<<8193, 18528, 18528, 0, 0, 0, 0, 34952>>)>>}

\* A call of listen_with_config or of listen_anyaddr_with_config with the
\* default configuration.
ServeInit ==
    /\ RxIdle
    /\ \/ \E ips \in ServeHosts :
            call = [op |-> "listen", local_addrs |-> get_local_addrs(ips),
                    config |-> Config_default("Any")]
       \/ call = [op |-> "listen_anyaddr", config |-> Config_default("Any")]
    /\ pos = 0
    /\ ret = Pending
    /\ invoked = <<>>
    /\ connectors = <<>>
    /\ wire = <<>>
    /\ bound = <<>>
    /\ joined = <<>>
    /\ rto = <<>>

\* listen_anyaddr_with_config: one socket per family is bound to the
\* wildcard address and joins the group of its family on the wildcard
\* interface, and both are handed to SSDPReceiver::new with no timeout.
\* Any of the host's calls can fail (hostOk = FALSE), which ends the call.
ListenAnyaddr ==
    /\ call.op = "listen_anyaddr" /\ ret = Pending
    /\ \E hostOk \in BOOLEAN :
         IF hostOk
         THEN LET sockets ==
                      <<bind_reuse(ListenBindAddr(4, call.config.port)),
                        bind_reuse(ListenBindAddr(6, call.config.port))>>
              IN  /\ bound' = sockets
                  /\ joined' =
                       <<[op |-> "join_multicast_v4",
                          multiaddr |->
                            Ipv4Addr_from_str(call.config.ipv4_addr).val,
                          interface |-> <<0, 0, 0, 0>>,
                          sock |-> 1],
                         [op |-> "join_multicast_v6",
                          multiaddr |->
                            Ipv6Addr_from_str(call.config.ipv6_addr).val,
                          interface |-> 0,
                          sock |-> 2]>>
                  /\ rto' = [k \in 1..2 |-> ListenTimeout]
                  /\ spawn_receivers(2, ListenTimeout)
                  /\ ret' = Ok(sockets)
         ELSE /\ ret' = Err([kind |-> "Other", msg |-> "os error"])
              /\ UNCHANGED <<bound, joined, rto>>
              /\ UNCHANGED rxVars
    /\ pos' = pos + 1
    /\ UNCHANGED <<call, invoked, connectors, wire>>

\* The call has returned the receiver to the consumer.
Serving == ret # Pending /\ ret.ok

\* The listen call, then the listeners of the receiver it returned and
\* the consumer that holds it.
ServeNext ==
    \/ ListenMapLocal
    \/ ListenLoop
    \/ ListenReturn
    \/ ListenAnyaddr
    \/ \E s \in socks : ReceivePackets(s)
    \/ Tick
    \/ Serving /\ TryRecv
    \/ Serving /\ Recv
    \/ Serving /\ IntoIter
    \/ Serving /\ IterNext
    \/ Serving /\ Drop

ServeSpec == ServeInit /\ [][ServeNext]_vars

\* ================================================================ claims
\* This step is the loop iteration of listener s in which its receive call
\* returns r.
Returns(s, r) == Iteration(s, r) /\ CanReturn(s, r)

\* Listener s receives a datagram in this step.
Receives(s) == nrecv'[s] = nrecv[s] + 1

\* An item of listener s is pushed into the channel in this step.
Pushes(s) == Len(chan') = Len(chan) + 1 /\ chan'[Len(chan')].sock = s

\* Some item of listener s is queued or was obtained by the consumer.
Forwarded(s) == got[s] > 0 \/ \E i \in 1..Len(chan) : chan[i].sock = s

\* Every listener thread has returned from receive_packets.
AllTerminated == \A s \in socks : state[s] \in {"TimedOut", "Closed"}

\* The consumer's record after it obtained the oldest queued item.
GotOldest == [got EXCEPT ![Head(chan).sock] = Head(chan).idx]

\* C1: the loop iteration in which the receive call of a listener returns
\* an error of kind WouldBlock or TimedOut pushes nothing and leaves the
\* listener terminated; a terminated listener stays terminated and never
\* pushes an item again.
C1_TimeoutTerminates ==
    [][\A s \in socks :
        /\ \A k \in {"WouldBlock", "TimedOut"} :
              Returns(s, Err(k)) => (state'[s] = "TimedOut" /\ chan' = chan)
        /\ (state[s] \in {"TimedOut", "Closed"})
              => (state'[s] = state[s] /\ ~Pushes(s))]_vars

\* A listener that forwarded a datagram earlier has timed out.
C1_Witness ==
    \E s \in socks : state[s] = "TimedOut" /\ Forwarded(s)

\* C2: the loop iteration that receives a datagram whose bytes fail to
\* decode leaves the channel unchanged and the listener back in its receive
\* call.
C2_DecodeFailureDiscards ==
    [][\A s \in socks : Receives(s) => \A d \in Datagrams(s) :
        (Returns(s, Ok(d)) /\ ~NotifyMessage_raw_ssdp(d.bytes).ok)
           => (chan' = chan /\ state'[s] = "Running")]_vars

\* A listener is back in its receive call after a datagram of which nothing
\* was forwarded, with the consumer still there.
C2_Witness ==
    \E s \in socks :
        /\ state[s] = "Running" /\ nrecv[s] = 1 /\ ~Forwarded(s)
        /\ consumer = "receiver"

\* C3: the loop iteration in which the receive call fails with a kind other
\* than WouldBlock and TimedOut leaves the listener running with nothing
\* pushed, whatever came before it; a listener terminates only in an
\* iteration whose receive call timed out, or in one that received a
\* datagram after the consumer dropped the channel's receiving end.
C3_OtherErrorsAreTransient ==
    [][\A s \in socks :
        /\ \A k \in {"Interrupted", "ConnectionReset"} :
              Returns(s, Err(k)) => (state'[s] = "Running" /\ chan' = chan)
        /\ (state[s] = "Running" /\ state'[s] # "Running")
              => \/ /\ state'[s] = "TimedOut"
                    /\ \E k \in {"WouldBlock", "TimedOut"} : Returns(s, Err(k))
                 \/ /\ state'[s] = "Closed"
                    /\ consumer = "dropped"
                    /\ \E d \in Datagrams(s) : Returns(s, Ok(d))]_vars

\* A listener is at the start of a new receive call with no datagram
\* received, while another has been waiting since construction: its
\* previous receive call failed with a non-timeout error.
C3_Witness ==
    \E s, o \in socks :
        /\ time.some
        /\ state[s] = "Running" /\ waited[s] = 0 /\ nrecv[s] = 0
        /\ state[o] = "Running" /\ waited[o] > 0

\* C4 as stated: once the consumer has dropped the receiver, a listener
\* terminates in the iteration that receives its next datagram.
C4_ExitOnNextReceive ==
    [][\A s \in socks : Receives(s) => \A d \in Datagrams(s) :
        (consumer = "dropped" /\ Returns(s, Ok(d)))
           => state'[s] \in {"TimedOut", "Closed"}]_vars

\* C4: once the consumer has dropped the receiver, the iteration of a
\* listener that receives a datagram terminates the listener if the
\* datagram decodes, and otherwise drops the datagram and leaves the
\* listener running.
C4_ExitOnNextDecodedReceive ==
    [][\A s \in socks : Receives(s) => \A d \in Datagrams(s) :
        (consumer = "dropped" /\ Returns(s, Ok(d)))
           => state'[s] = IF NotifyMessage_raw_ssdp(d.bytes).ok
                          THEN "Closed" ELSE "Running"]_vars

\* With the receiver dropped, every listener has terminated on a failed send.
C4_Witness ==
    /\ consumer = "dropped"
    /\ Cardinality(socks) >= 2
    /\ \A s \in socks : state[s] = "Closed"

\* C5: recv returns the oldest queued item when the channel is non-empty;
\* it reports closed only when every listener has terminated and nothing is
\* queued; and while the consumer holds the channel an item leaves the
\* queue only from its head and into the consumer's hands.
C5_RecvOldestOrClosed ==
    /\ [][/\ Recv =>
               IF chan # <<>>
               THEN result' = "Item" /\ chan' = Tail(chan) /\ got' = GotOldest
               ELSE result' = "RecvError" /\ AllTerminated /\ got' = got
          /\ (consumer' # "dropped" /\ Len(chan') < Len(chan))
               => (chan' = Tail(chan) /\ got' = GotOldest)]_vars
    /\ [](result = "RecvError" => (AllTerminated /\ chan = <<>>))

\* recv has reported closed after the consumer obtained an item.
C5_Witness ==
    /\ result = "RecvError"
    /\ \E s \in socks : got[s] > 0

\* The consumer has been told that the channel is closed: by recv through
\* the receiver, or by the end of the sequence through the iterator.
ClosedReported ==
    \/ consumer = "receiver" /\ result = "RecvError"
    \/ consumer = "iter" /\ result = "None"

C7_ShutdownAfterDuration ==
    (time.some /\ clock > time.d) => AllTerminated

\* C8: the items of one socket reach the consumer in the order in which the
\* socket received their datagrams, each at most once: every item the
\* consumer obtains is a later arrival of its socket than any it obtained
\* before, and the queue holds each socket's items in arrival order.
C8_PerSocketOrder ==
    /\ [][got' # got =>
            \E s \in socks :
               /\ got' = [got EXCEPT ![s] = got'[s]]
               /\ got[s] < got'[s] /\ got'[s] <= nrecv[s]]_vars
    /\ [](\A i, j \in 1..Len(chan) :
            /\ chan[i].idx > got[chan[i].sock]
            /\ (i < j /\ chan[i].sock = chan[j].sock)
                  => chan[i].idx < chan[j].idx)

\* Items of two sockets interleave both ways: the consumer has obtained the
\* first item of one socket, and an item of another socket is queued ahead
\* of the first socket's next item.
C8_Witness ==
    /\ Len(chan) = 2
    /\ chan[1].sock # chan[2].sock
    /\ got[chan[2].sock] = 1 /\ chan[2].idx = 2
    /\ got[chan[1].sock] = 0

\* try_recv returns whenever the consumer calls it.
TryRecvNeverBlocks == consumer = "receiver" => ENABLED TryRecv

\* C9 as stated: try_recv never blocks; with nothing queued it reports
\* "empty" in every state; with an item queued it returns the oldest one.
C9_TryRecvEmptyWhenever ==
    /\ [](TryRecvNeverBlocks)
    /\ [][TryRecv =>
            IF chan = <<>>
            THEN result' = "Empty" /\ chan' = chan /\ got' = got
            ELSE result' = "Item" /\ chan' = Tail(chan) /\ got' = GotOldest]_vars

\* C9: try_recv never blocks; with nothing queued it reports "empty" while
\* some listener is running and "disconnected" once every listener has
\* terminated; with an item queued it returns the oldest one.
C9_TryRecvEmptyOrDisconnected ==
    /\ [](TryRecvNeverBlocks)
    /\ [][TryRecv =>
            IF chan = <<>>
            THEN /\ result' = IF AllTerminated THEN "Disconnected" ELSE "Empty"
                 /\ chan' = chan /\ got' = got
            ELSE result' = "Item" /\ chan' = Tail(chan) /\ got' = GotOldest]_vars

\* try_recv has reported "disconnected" after the listeners of a receiver
\* with sockets terminated.
C9_Witness ==
    /\ result = "Disconnected"
    /\ socks # {} /\ AllTerminated

\* C10: a listener's decode of a received datagram as a NotifyMessage
\* succeeds (the message is pushed, or the push fails because the consumer
\* is gone) exactly when the underlying decode of the bytes succeeds and
\* classifies them as Notify, and the pushed message wraps the decoded one;
\* otherwise the decode returns an error and the listener goes on.
C10_NotifyOnly ==
    [][\A s \in socks : Receives(s) => \A d \in Datagrams(s) :
        Returns(s, Ok(d)) =>
          LET u == SSDPMessage_raw_ssdp(d.bytes)
              accepted == Pushes(s) \/ state'[s] = "Closed"
          IN  /\ accepted <=> (u.ok /\ u.val.message_type = "Notify")
              /\ Pushes(s) => chan'[Len(chan')].msg = [message |-> u.val]
              /\ ~accepted => (chan' = chan /\ state'[s] = "Running")]_vars

\* A listener pushed its first datagram and rejected its second.
C10_Witness ==
    \E s \in socks :
        /\ nrecv[s] = 2 /\ state[s] = "Running" /\ consumer = "receiver"
        /\ got[s] = 0
        /\ Len(chan) = 1 /\ chan[1].sock = s /\ chan[1].idx = 1

\* The call under examination has returned.
Returned(op) == call.op = op /\ ret # Pending

\* C11: for every u8 n, MX::new(n) returns the header holding exactly n
\* when 1 <= n <= 120, and an InvalidHeader error when n = 0 or n >= 121.
C11_MXNewRange ==
    Returned("MX::new") =>
        IF 1 <= call.wait_bound /\ call.wait_bound <= 120
        THEN ret.ok /\ ret.val = [MX |-> call.wait_bound]
        ELSE ~ret.ok /\ ret.val.kind = "InvalidHeader"

\* MX::new has rejected 121, the first value above the range.
C11_Witness ==
    /\ Returned("MX::new")
    /\ call.wait_bound = 121
    /\ ~ret.ok

\* A byte string is a plain decimal numeral: digits only, at least one.
IsPlainDecimal(v) == v # <<>> /\ \A k \in 1..Len(v) : IsDigit(v[k])

\* The number a plain decimal numeral denotes.
RECURSIVE DecimalValue(_)
DecimalValue(v) ==
    IF v = <<>> THEN 0
    ELSE 10 * DecimalValue(SubSeq(v, 1, Len(v) - 1)) + DigitValue(v[Len(v)])

\* C12 as stated: MX::parse_header succeeds exactly when the input is one
\* value, that value is an unsigned decimal integer without sign or
\* fraction, and the integer lies in [1,120]; it then returns MX of it.
C12_ParseHeaderStrict ==
    Returned("MX::parse_header") =>
        LET raw == call.raw
            valid == /\ Len(raw) = 1
                     /\ IsPlainDecimal(raw[1])
                     /\ DecimalValue(raw[1]) \in 1..120
        IN  /\ ret.ok <=> valid
            /\ ret.ok => ret.val = [MX |-> DecimalValue(raw[1])]

\* map_local has gone through every enumerated address of the send call,
\* no closure call having failed.
MapLocalDone ==
    /\ call.op = "send"
    /\ pos >= 1
    /\ ~(ret # Pending /\ ~ret.ok /\ ret.val.conn = 0)

\* The IPv6 address classes by their ranges: ::, ::1, 2001:2::/48,
\* 2001:db8::/32, fc00::/7, fe80::/10.
InExcludedV6Class(ip) ==
    \/ ip = <<0, 0, 0, 0, 0, 0, 0, 0>>
    \/ ip = <<0, 0, 0, 0, 0, 0, 0, 1>>
    \/ ip[1] = 8193 /\ ip[2] = 2 /\ ip[3] = 0
    \/ ip[1] = 8193 /\ ip[2] = 3512
    \/ ip[1] \in 64512..65023
    \/ ip[1] \in 65152..65215

\* C13: map_local invokes its closure for an IPv6 address only if the
\* address is none of unspecified, loopback, benchmarking, documentation,
\* unique-local and link-local unicast, and does invoke it for a global
\* unicast address: the IPv6 addresses the closure was invoked for are, in
\* order, the enumerated IPv6 addresses outside those classes.
C13_V6OnlyOutsideExcludedClasses ==
    MapLocalDone =>
        SelectSeq(invoked, LAMBDA a : a.v = 6)
        = SelectSeq(call.local_addrs,
                    LAMBDA a : a.v = 6 /\ ~InExcludedV6Class(a.ip))

\* C14: map_local invokes its closure for an IPv4 address iff the address
\* is not in 127.0.0.0/8: no address the closure was invoked for is an
\* IPv4 loopback address, and once map_local is through, the IPv4
\* addresses it was invoked for are, in order, the enumerated IPv4
\* addresses outside 127.0.0.0/8.
C14_V4IffNotLoopback ==
    /\ \A k \in 1..Len(invoked) :
         invoked[k].v = 4 => invoked[k].ip[1] # 127
    /\ MapLocalDone =>
         SelectSeq(invoked, LAMBDA a : a.v = 4)
         = SelectSeq(call.local_addrs,
                     LAMBDA a : a.v = 4 /\ a.ip[1] # 127)

\* map_local is through a host with the addresses 127.255.0.3 and
\* 192.168.1.5, and has invoked the closure for the second only.
C14_Witness ==
    /\ MapLocalDone
    /\ call.local_addrs = <<SocketAddrV4(<<127, 255, 0, 3>>, 0),
                            SocketAddrV4(<<192, 168, 1, 5>>, 0)>>
    /\ invoked = <<SocketAddrV4(<<192, 168, 1, 5>>, 0)>>


\* C15: the connectors of the send path obey the IP-version mode and are
\* bound with local port 0: once all_local_connectors has returned them,
\* there is exactly one connector per address that passed the address
\* filter and whose family the mode admits (IPv4 only under V4Only, IPv6
\* only under V6Only, both under Any), in the order of the addresses, each
\* bound to that address and port 0.
C15_ConnectorsObeyMode ==
    MapLocalDone =>
        LET mode == call.config.mode
            admitted ==
                SelectSeq(invoked,
                          LAMBDA a : \/ mode = "Any"
                                     \/ mode = "V4Only" /\ a.v = 4
                                     \/ mode = "V6Only" /\ a.v = 6)
        IN  /\ Len(connectors) = Len(admitted)
            /\ \A j \in 1..Len(connectors) :
                 /\ connectors[j].bind.v = admitted[j].v
                 /\ connectors[j].bind.ip = admitted[j].ip
                 /\ connectors[j].bind.port = 0
                 /\ mode = "V4Only" => connectors[j].bind.v = 4
                 /\ mode = "V6Only" => connectors[j].bind.v = 6

\* Under V4Only, a host with 192.168.1.5 and fe80::1 has got the one
\* connector for 192.168.1.5.
C15_Witness ==
    /\ MapLocalDone
    /\ call.config.mode = "V4Only"
    /\ Len(invoked) = 2
    /\ invoked[1].v = 4 /\ invoked[2].v = 6
    /\ Len(connectors) = 1
    /\ connectors[1].bind = SocketAddrV4(<<192, 168, 1, 5>>, 0)


\* C17: every transmission of multicast::send goes to the configured
\* multicast address of the sending connector's family and the configured
\* port: an IPv4 connector sends to (config.ipv4_addr, config.port), an
\* IPv6 connector to config.ipv6_addr and config.port with the flow-info
\* and the scope id of that connector's own local address.
C17_DestinationPerFamily ==
    \A k \in 1..Len(wire) :
        LET local == connectors[wire[k].conn].local IN
        /\ wire[k].from = local
        /\ IF local.v = 4
           THEN /\ call.config.ipv4_addr = "239.255.255.250"
                /\ wire[k].to = [v |-> 4, ip |-> <<239, 255, 255, 250>>,
                                 port |-> call.config.port]
           ELSE /\ call.config.ipv6_addr = "FF02::C"
                /\ wire[k].to = [v |-> 6,
                                 ip |-> <<65282, 0, 0, 0, 0, 0, 0, 12>>,
                                 port |-> call.config.port,
                                 flowinfo |-> local.flowinfo,
                                 scope_id |-> local.scope_id]

\* Two IPv6 connectors whose local addresses have the scope ids 2 and 3
\* have each transmitted to port 1900 under its own scope id.
C17_Witness ==
    /\ Len(wire) = 2
    /\ wire[1].to.v = 6 /\ wire[1].to.scope_id = 2
    /\ wire[2].to.v = 6 /\ wire[2].to.scope_id = 3
    /\ wire[1].to.port = 1900

\* C18: multicast::send ends with the first error: when connector i fails,
\* the call returns that error and not a list, exactly the connectors
\* before i have transmitted and none does afterwards; the list of all
\* connectors is returned only when every connector has transmitted.
C18_FirstErrorAborts ==
    /\ \A k \in 1..Len(wire) : wire[k].conn = k
    /\ (call.op = "send" /\ ret # Pending /\ ~ret.ok) =>
         /\ DOMAIN ret.val = {"kind", "conn"}
         /\ ret.val.conn >= 1 => Len(wire) = ret.val.conn - 1
         /\ ret.val.conn = 0 => wire = <<>> /\ connectors = <<>>
    /\ (call.op = "send" /\ ret # Pending /\ ret.ok) =>
         /\ ret.val = connectors
         /\ Len(wire) = Len(connectors)

\* The first of two connectors has failed: the call has returned its
\* error and the second connector has not transmitted.
C18_Witness ==
    /\ call.op = "send" /\ ret # Pending /\ ~ret.ok
    /\ Len(connectors) = 2
    /\ ret.val.conn = 1
    /\ wire = <<>>


\* C16: join_multicast returns the version-mismatch InvalidInput error,
\* having issued no request on the socket, iff the interface address and
\* the multicast address are of different families; for two IPv4
\* addresses it requests the IPv4 group on the interface's IP, for two
\* IPv6 addresses the IPv6 group on the interface's scope id.
\* leave_multicast follows the same rule.
C16_MembershipByFamily ==
    (call.op \in {"join_multicast", "leave_multicast"} /\ ret # Pending) =>
        LET iface == call.iface
            m == call.mcast_addr
            verb == IF call.op = "join_multicast" THEN "join" ELSE "leave"
            mismatch ==
                [ok |-> FALSE,
                 val |-> [kind |-> "InvalidInput",
                          msg |-> "Multicast And Interface Addresses Are Not The Same Version"]]
        IN  /\ ret = mismatch <=> iface.v # m.v
            /\ iface.v # m.v => joined = <<>>
            /\ (iface.v = 4 /\ m.v = 4) =>
                 joined = <<[op |-> IF verb = "join" THEN "join_multicast_v4"
                                    ELSE "leave_multicast_v4",
                             multiaddr |-> m.ip,
                             interface |-> iface.ip]>>
            /\ (iface.v = 6 /\ m.v = 6) =>
                 joined = <<[op |-> IF verb = "join" THEN "join_multicast_v6"
                                    ELSE "leave_multicast_v6",
                             multiaddr |-> m.ip,
                             interface |-> iface.scope_id]>>

\* join_multicast for fe80::1 with scope id 3 and ff02::c has requested
\* the group on interface 3 and returned Ok.
C16_Witness ==
    /\ call.op = "join_multicast"
    /\ call.iface = SocketAddrV6(<<65152, 0, 0, 0, 0, 0, 0, 1>>, 0, 0, 3)
    /\ ret = Ok("()")
    /\ joined = <<[op |-> "join_multicast_v6",
                   multiaddr |-> <<65282, 0, 0, 0, 0, 0, 0, 12>>,
                   interface |-> 3]>>


\* C19: listen_with_config binds to each local interface and not to
\* INADDR_ANY: no socket it hands to the receiver is bound to the wildcard
\* address 0.0.0.0 or ::.
C19_NoWildcardSocket ==
    (call.op = "listen" /\ ret # Pending /\ ret.ok) =>
        \A k \in 1..Len(ret.val) :
            /\ ret.val[k].addr.ip # <<0, 0, 0, 0>>
            /\ ret.val[k].addr.ip # <<0, 0, 0, 0, 0, 0, 0, 0>>


\* SSDPReceiver::new has returned the receiver.
Constructed == call.op = "SSDPReceiver::new" /\ ret # Pending /\ ret.ok

\* C20, as stated: sockets handed to SSDPReceiver::new with read timeouts
\* of their own keep them: once the receiver is constructed, every socket
\* has the read timeout it came with.
C20_PriorTimeoutsKept ==
    Constructed => \A s \in 1..call.socks : rto[s] = call.prior[s]

\* C20, amended: SSDPReceiver::new gives every socket the one timeout it
\* is called with: once the receiver is constructed, every socket's read
\* timeout is `time`, whatever timeout the socket came with, so all
\* listeners run under the same timeout.
C20_SharedTimeout ==
    Constructed => \A s \in 1..call.socks : rto[s] = call.time

\* Two sockets that came with the timeouts 1 and 2 have both got the
\* timeout None of the call.
C20_Witness ==
    /\ Constructed
    /\ call.socks = 2
    /\ call.prior = <<Some(1), Some(2)>>
    /\ call.time = None
    /\ rto = <<None, None>>


\* C21: every item in the channel is a pair (m, a) of a datagram some
\* listener received on its own socket from a, whose bytes decoded to m: an
\* item is appended only by the iteration of a listener that receives a
\* datagram which decodes, and it is the decoded message with that
\* datagram's sender address; a listener that has received no datagram has
\* no item in the channel; and while the consumer is alive each decoded
\* datagram appends exactly one item.
C21_ItemsAreDecodedDatagrams ==
    /\ [](\A i \in 1..Len(chan) :
            /\ chan[i].sock \in socks
            /\ chan[i].idx \in 1..nrecv[chan[i].sock]
            /\ chan[i].addr = [ip |-> <<192, 168, 1, 10 + chan[i].sock>>,
                               port |-> 1900]
            /\ \E b \in Bytes :
                 /\ NotifyMessage_raw_ssdp(b).ok
                 /\ chan[i].msg = NotifyMessage_raw_ssdp(b).val)
    /\ [][/\ \A s \in socks : Receives(s) => \A d \in Datagrams(s) :
               (/\ Returns(s, Ok(d))
                /\ NotifyMessage_raw_ssdp(d.bytes).ok
                /\ consumer # "dropped")
               => chan' = Append(chan,
                                 [msg |-> NotifyMessage_raw_ssdp(d.bytes).val,
                                  addr |-> d.addr,
                                  sock |-> s,
                                  idx |-> nrecv[s] + 1])
          /\ Len(chan') > Len(chan) =>
               \E s \in socks :
                  /\ Receives(s)
                  /\ Len(chan') = Len(chan) + 1
                  /\ SubSeq(chan', 1, Len(chan)) = chan
                  /\ chan'[Len(chan')].sock = s
                  /\ chan'[Len(chan')].idx = nrecv'[s]
                  /\ \E d \in Datagrams(s) :
                       /\ Returns(s, Ok(d))
                       /\ NotifyMessage_raw_ssdp(d.bytes).ok]_vars

\* The first listener has timed out without ever receiving a datagram and
\* has nothing in the channel, which holds an item of the second listener
\* with the address of the second socket's peer.
C21_Witness ==
    /\ socks = {1, 2}
    /\ state[1] = "TimedOut" /\ nrecv[1] = 0
    /\ consumer = "receiver"
    /\ Len(chan) = 1
    /\ chan[1].sock = 2
    /\ chan[1].addr = [ip |-> <<192, 168, 1, 12>>, port |-> 1900]


\* C22: every connector multicast::send builds has the configured TTL
\* applied to its socket: the socket's multicast TTL equals config.ttl.
C22_ConnectorTtlIsConfigured ==
    call.op = "send" =>
        \A j \in 1..Len(connectors) :
            connectors[j].multicast_ttl = call.config.ttl


\* C23: SSDPReceiver::new sets the read timeout on every socket before it
\* spawns any listener: when setting it fails on a socket, new returns
\* that socket's error and no listener exists, the sockets before it
\* having the new timeout already; listeners exist only once every
\* socket has the timeout.
C23_TimeoutsBeforeListeners ==
    call.op = "SSDPReceiver::new" =>
        /\ (ret # Pending /\ ~ret.ok) =>
             /\ socks = {} /\ state = <<>>
             /\ ret.val.sock = pos
             /\ \A s \in 1..(ret.val.sock - 1) : rto[s] = call.time
        /\ socks # {} =>
             /\ ret # Pending /\ ret.ok
             /\ socks = 1..call.socks
             /\ \A s \in socks : rto[s] = call.time /\ state[s] = "Running"

\* Setting the timeout has failed on the second socket after the first
\* socket got a timeout it did not have before; no listener exists.
C23_Witness ==
    /\ call.op = "SSDPReceiver::new"
    /\ ret # Pending /\ ~ret.ok
    /\ ret.val.sock = 2
    /\ rto[1] = call.time /\ call.prior[1] # call.time
    /\ socks = {}


\* C25: multicast::send builds the connectors for all surviving addresses
\* before the first transmission: a transmission is made only after the
\* closure has been invoked for every address that passes the filter and
\* a connector exists for each of them the mode admits; when building a
\* connector fails, the call returns that error, the failing address is
\* the last one visited, there is no connector and nothing has been sent.
C25_ConnectorsBeforeTransmission ==
    call.op = "send" =>
        LET passing == map_local_kept(call.local_addrs)
            mode == call.config.mode
            admits(a) == \/ mode = "Any"
                         \/ mode = "V4Only" /\ a.v = 4
                         \/ mode = "V6Only" /\ a.v = 6
        IN  /\ wire # <<>> =>
                 /\ invoked = passing
                 /\ Len(connectors) = Len(SelectSeq(passing, admits))
            /\ (ret # Pending /\ ~ret.ok /\ ret.val.conn = 0) =>
                 /\ wire = <<>>
                 /\ connectors = <<>>
                 /\ Len(invoked) \in 1..Len(passing)
                 /\ invoked = SubSeq(passing, 1, Len(invoked))
                 /\ admits(invoked[Len(invoked)])

\* Building the connector for the first of two surviving addresses has
\* failed: the call has returned the error, the second address has not
\* been visited and nothing has been sent.
C25_Witness ==
    /\ call.op = "send"
    /\ ret # Pending /\ ~ret.ok /\ ret.val.conn = 0
    /\ Len(map_local_kept(call.local_addrs)) = 2
    /\ Len(invoked) = 1
    /\ wire = <<>>


C24_EmptyReceiverIsClosed ==
    /\ []((/\ call.op = "listen" /\ ret # Pending
           /\ \A k \in 1..Len(call.local_addrs) :
                 IF call.local_addrs[k].v = 4
                 THEN call.local_addrs[k].ip[1] = 127
                 ELSE ~InExcludedV6Class(call.local_addrs[k].ip))
          => /\ ret.ok /\ ret.val = <<>>
             /\ socks = {} /\ chan = <<>>
             /\ consumer = "receiver" => ENABLED Recv
             /\ consumer = "iter" => ENABLED IterNext)
    /\ [][(call.op = "listen" /\ ret # Pending /\ ret.ok /\ ret.val = <<>>)
            => /\ Recv => result' = "RecvError"
               /\ IterNext => result' = "None"]_vars

\* On a host with the loopback interface only, listen_with_config has
\* returned a receiver and recv has reported closed.
C24_Witness ==
    /\ call.op = "listen" /\ ret # Pending /\ ret.ok
    /\ Len(call.local_addrs) = 1 /\ call.local_addrs[1].v = 4
    /\ socks = {}
    /\ consumer = "receiver" /\ result = "RecvError"

\* A listener of a listening receiver leaves its receive loop in this
\* step only closed by a failed send: the consumer has dropped the
\* receiver and the listener receives a datagram that decodes.
ListenerLeavesOnlyClosed ==
    \A s \in socks :
        (state[s] = "Running" /\ state'[s] # "Running") =>
            /\ state'[s] = "Closed"
            /\ consumer = "dropped"
            /\ \E d \in Datagrams(s) :
                 /\ Returns(s, Ok(d))
                 /\ NotifyMessage_raw_ssdp(d.bytes).ok

\* C27, as stated: the receivers listen_with_config and
\* listen_anyaddr_with_config return have no timeout, no listener ever
\* times out, while the consumer keeps the receiver no listener
\* terminates and recv never reports closed, and after the consumer
\* dropped it a listener terminates only on receiving a datagram that
\* decodes.
C27_NeverClosedWhileHeld ==
    /\ [](Serving =>
            /\ time = [some |-> FALSE, d |-> 0]
            /\ \A s \in socks : state[s] # "TimedOut"
            /\ consumer \in {"receiver", "iter"} =>
                 /\ \A s \in socks : state[s] = "Running"
                 /\ result \notin {"RecvError", "None"})
    /\ [][ListenerLeavesOnlyClosed]_vars

\* C27, amended: as stated, except that recv reports closed (and the
\* iterator ends) exactly for a receiver without any socket, which
\* listen_with_config returns on a host with no address passing the
\* address filter.
C27_NeverClosedUnlessEmpty ==
    /\ [](Serving =>
            /\ time = [some |-> FALSE, d |-> 0]
            /\ \A s \in socks : rto[s] = [some |-> FALSE, d |-> 0]
            /\ \A s \in socks : state[s] # "TimedOut"
            /\ consumer \in {"receiver", "iter"} =>
                 /\ \A s \in socks : state[s] = "Running"
                 /\ result \in {"RecvError", "None"} => socks = {})
    /\ [][ListenerLeavesOnlyClosed]_vars

\* With the receiver of listen_anyaddr_with_config dropped, the first
\* listener has terminated on a failed send while the second, which has
\* received a datagram too, is still in its receive call.
C27_Witness ==
    /\ call.op = "listen_anyaddr" /\ Serving
    /\ consumer = "dropped"
    /\ state[1] = "Closed"
    /\ state[2] = "Running" /\ nrecv[2] > 0

====
